---- MODULE Spec2Model ----
(***************************************************************************)
(* The note store of llm_code_assistant/utils/notes_manager.py             *)
(* (class NotesManager): the in-memory catalog self.index["notes"], the    *)
(* persisted index.json, and the per-note content files <id>.txt.          *)
(*                                                                         *)
(* Text (titles, contents, queries) is a sequence of one-character         *)
(* strings, so that str.lower() and the substring test `in` are computed.  *)
(* An optional argument is <<>> for None and <<v>> for a supplied v.       *)
(* The clock counts ticks; one millisecond is TicksPerMs ticks, because    *)
(* time.time() is finer than the millisecond add_note keeps for the id.    *)
(*                                                                         *)
(* Spec is the store on a file system whose writes succeed.  FaultySpec    *)
(* adds the runs in which a content write or an index write raises, and    *)
(* the runs cut short by the death of the process, followed by a restart.  *)
(* TwoSpec is the store used through the two NotesManager instances that   *)
(* the terminal UI holds on one directory.  StartSpec is the program       *)
(* starting on a directory that an earlier run, or another program, left.  *)
(***************************************************************************)
EXTENDS Integers, Sequences, FiniteSets, TLC

\* ---------------------------------------------------------------- bounds
MaxTime == 2
TicksPerMs == 2
MaxOps == 3

\* ------------------------------------------------------------------ text
\* str.lower() on one character
LowerChar(c) ==
  IF c = "A" THEN "a" ELSE IF c = "B" THEN "b" ELSE c

\* str.lower()
Lower(s) == [i \in 1..Len(s) |-> LowerChar(s[i])]

\* q in s  (Python substring test; the empty string is in every string)
Contains(s, q) ==
  \E off \in 0..(Len(s) - Len(q)) :
    \A i \in 1..Len(q) : s[off + i] = q[i]

\* -------------------------------------------------------------- optional
None == <<>>
Some(v) == <<v>>
IsNone(o) == o = <<>>
Val(o) == o[1]

\* ------------------------------------------------------------- contexts
\* a context is a dict: a function from its keys to values
EmptyCtx == [k \in {} |-> ""]

\* assignment instead of dict.update: the other dict replaces this one
DictUpdate_Replace(d, other) == other

\* dict.update(other)
DictUpdate(d, other) ==
  [k \in (DOMAIN d) \cup (DOMAIN other) |->
     IF k \in DOMAIN other THEN other[k] ELSE d[k]]

\* ------------------------------------------------------------------- ids
\* f"note_{int(time.time() * 1000)}" at clock reading t
NoteIdAt(t) == <<"note_", t \div TicksPerMs>>

\* ----------------------------------------------------------------- files
\* the notes directory: a function from the ids that have a <id>.txt to
\* the text of that file
NoFiles == [i \in {} |-> <<>>]

FileExists(files, id) == id \in DOMAIN files

\* open(note_file, 'w'); f.write(content)
WriteFile(files, id, content) ==
  [i \in (DOMAIN files) \cup {id} |-> IF i = id THEN content ELSE files[i]]

\* note_file.unlink()
Unlink(files, id) == [i \in (DOMAIN files) \ {id} |-> files[i]]

\* Text-mode reading (open(note_file, 'r'), newline=None) translates the
\* line endings "\r\n" and "\r" to "\n".  "CR" and "LF" are those characters.
RECURSIVE Newlines(_)
Newlines(s) ==
  IF s = <<>> THEN <<>>
  ELSE IF Head(s) = "CR"
       THEN IF Len(s) >= 2 /\ s[2] = "LF"
            THEN <<"LF">> \o Newlines(SubSeq(s, 3, Len(s)))
            ELSE <<"LF">> \o Newlines(Tail(s))
       ELSE <<Head(s)>> \o Newlines(Tail(s))

\* with open(note_file, 'r') as f: content = f.read()
ReadFile(files, id) == Newlines(files[id])

\* ----------------------------------------------------------------- store
\* One NotesManager with its directory:
\*   index  self.index["notes"], a list of metadata dicts
\*   files  the <id>.txt content files
\*   disk   index.json: whether it exists, whether it holds a whole JSON
\*          document (a write that failed part-way leaves a truncated one),
\*          whether that document has a "notes" list, and the list it holds
EmptyStore ==
  [index |-> <<>>, files |-> NoFiles,
   disk |-> [exists |-> FALSE, valid |-> TRUE, catalog |-> TRUE, notes |-> <<>>]]

\* _save_index: json.dump(self.index, f)
SaveIndex(S) ==
  [S EXCEPT !.disk = [exists |-> TRUE, valid |-> TRUE, catalog |-> TRUE,
                      notes |-> S.index]]

\* for i, note in enumerate(self.index["notes"]): if note["id"] == note_id: break
\* (0 when the loop finds none)
FindNote(index, id) ==
  IF \E i \in 1..Len(index) : index[i].id = id
  THEN CHOOSE i \in 1..Len(index) :
         /\ index[i].id = id
         /\ \A j \in 1..(i - 1) : index[j].id # id
  ELSE 0

\* self.index["notes"].pop(note_index)
Pop(seq, i) == SubSeq(seq, 1, i - 1) \o SubSeq(seq, i + 1, Len(seq))

\* note = note_meta.copy(); note["content"] = content
WithContent(meta, content) ==
  [id |-> meta.id, title |-> meta.title, created |-> meta.created,
   updated |-> meta.updated, tags |-> meta.tags, context |-> meta.context,
   content |-> content]

\* the metadata part of a full record
MetaOf(note) ==
  [id |-> note.id, title |-> note.title, created |-> note.created,
   updated |-> note.updated, tags |-> note.tags, context |-> note.context]

\* add_note; tId, tCreated, tUpdated are its three readings of time.time()
add_note(S, title, content, tags, context, tId, tCreated, tUpdated) ==
  LET note_id == NoteIdAt(tId)
      note_meta == [id |-> note_id,
                    title |-> title,
                    created |-> tCreated,
                    updated |-> tUpdated,
                    tags |-> IF IsNone(tags) THEN <<>> ELSE Val(tags),
                    context |-> IF IsNone(context) THEN EmptyCtx ELSE Val(context)]
      S1 == [S EXCEPT !.index = Append(S.index, note_meta)]
      S2 == [S1 EXCEPT !.files = WriteFile(S1.files, note_id, content)]
  IN [store |-> SaveIndex(S2), ret |-> note_id]

\* update_note with `note_meta["tags"] = tags or []`: tags that were not
\* supplied are emptied
update_note_TagsReset(S, note_id, title, content, tags, context, t) ==
  LET note_index == FindNote(S.index, note_id) IN
  IF note_index = 0 THEN [store |-> S, ret |-> FALSE]
  ELSE
    LET old == S.index[note_index]
        note_meta ==
          [id |-> old.id,
           title |-> IF IsNone(title) THEN old.title ELSE Val(title),
           created |-> old.created,
           updated |-> t,
           tags |-> IF IsNone(tags) THEN <<>> ELSE Val(tags),
           context |-> IF IsNone(context) THEN old.context
                       ELSE DictUpdate(old.context, Val(context))]
        S1 == [S EXCEPT !.index[note_index] = note_meta]
        S2 == IF IsNone(content) THEN S1
              ELSE [S1 EXCEPT !.files = WriteFile(S1.files, note_id, Val(content))]
    IN [store |-> SaveIndex(S2), ret |-> TRUE]

\* update_note; t is its reading of time.time()
update_note(S, note_id, title, content, tags, context, t) ==
  LET note_index == FindNote(S.index, note_id) IN
  IF note_index = 0 THEN [store |-> S, ret |-> FALSE]
  ELSE
    LET old == S.index[note_index]
        note_meta ==
          [id |-> old.id,
           title |-> IF IsNone(title) THEN old.title ELSE Val(title),
           created |-> old.created,
           updated |-> t,
           tags |-> IF IsNone(tags) THEN old.tags ELSE Val(tags),
           context |-> IF IsNone(context) THEN old.context
                       ELSE DictUpdate(old.context, Val(context))]
        S1 == [S EXCEPT !.index[note_index] = note_meta]
        S2 == IF IsNone(content) THEN S1
              ELSE [S1 EXCEPT !.files = WriteFile(S1.files, note_id, Val(content))]
    IN [store |-> SaveIndex(S2), ret |-> TRUE]

\* delete_note that takes "not found" (-1) as a position: pop(-1) removes
\* the last entry
delete_note_PopsLast(S, note_id) ==
  LET found == FindNote(S.index, note_id)
      note_index == IF found = 0 THEN Len(S.index) ELSE found
  IN IF note_index = 0 THEN [store |-> S, ret |-> FALSE]
     ELSE
       LET S1 == [S EXCEPT !.index = Pop(S.index, note_index)]
           S2 == IF FileExists(S1.files, note_id)
                 THEN [S1 EXCEPT !.files = Unlink(S1.files, note_id)]
                 ELSE S1
       IN [store |-> SaveIndex(S2), ret |-> TRUE]

\* delete_note
delete_note(S, note_id) ==
  LET note_index == FindNote(S.index, note_id) IN
  IF note_index = 0 THEN [store |-> S, ret |-> FALSE]
  ELSE
    LET S1 == [S EXCEPT !.index = Pop(S.index, note_index)]
        S2 == IF FileExists(S1.files, note_id)
              THEN [S1 EXCEPT !.files = Unlink(S1.files, note_id)]
              ELSE S1
    IN [store |-> SaveIndex(S2), ret |-> TRUE]

\* get_note without the `if not note_file.exists(): return None` test: a
\* missing file reads as empty content
get_note_NoBlobCheck(S, note_id) ==
  LET i == FindNote(S.index, note_id) IN
  IF i = 0 THEN None
  ELSE Some(WithContent(S.index[i],
                        IF FileExists(S.files, note_id)
                        THEN ReadFile(S.files, note_id) ELSE <<>>))

\* get_note: None, or the note with its content
get_note(S, note_id) ==
  LET i == FindNote(S.index, note_id) IN
  IF i = 0 THEN None
  ELSE IF ~FileExists(S.files, note_id) THEN None
  ELSE Some(WithContent(S.index[i], ReadFile(S.files, note_id)))

\* a filter argument that Python treats as true: not None and not ""
Truthy(o) == ~IsNone(o) /\ Val(o) # ""

\* x in list
InList(x, list) == \E i \in 1..Len(list) : list[i] = x

\* list_notes without the sort: the entries stay in catalog order
SortByUpdatedDesc_CatalogOrder(notes) == notes

\* notes.sort(key=lambda x: x["updated"], reverse=True): a stable sort, so
\* entries with equal keys keep their order
RECURSIVE SortByUpdatedDesc(_)
SortByUpdatedDesc(notes) ==
  IF notes = <<>> THEN <<>>
  ELSE
    LET n == Len(notes)
        x == notes[n]
        rest == SortByUpdatedDesc(SubSeq(notes, 1, n - 1))
        \* x goes after every entry whose key is >= its own
        k == Cardinality({i \in 1..Len(rest) : rest[i].updated >= x.updated})
    IN SubSeq(rest, 1, k) \o <<x>> \o SubSeq(rest, k + 1, Len(rest))

\* list_notes; tag, context_key and context_value are optional
list_notes(S, tag, context_key, context_value) ==
  LET Skip(note) ==
        \/ Truthy(tag) /\ ~InList(Val(tag), note.tags)
        \/ /\ Truthy(context_key)
           /\ \/ Val(context_key) \notin DOMAIN note.context
              \/ /\ Truthy(context_value)
                 /\ note.context[Val(context_key)] # Val(context_value)
  IN SortByUpdatedDesc(SelectSeq(S.index, LAMBDA note : ~Skip(note)))

\* the loop shared by the readers that attach content: the entries of the
\* catalog, in catalog order, whose file exists and whose position is in
\* keep, each with the content read from its file
Collect(S, keep) ==
  LET positions == [i \in 1..Len(S.index) |-> i]
      kept == SelectSeq(positions,
                LAMBDA i : FileExists(S.files, S.index[i].id) /\ i \in keep)
  IN [j \in 1..Len(kept) |->
        WithContent(S.index[kept[j]], ReadFile(S.files, S.index[kept[j]].id))]

\* the catalog positions whose content file exists
Readable(S) ==
  {i \in 1..Len(S.index) : FileExists(S.files, S.index[i].id)}

\* search_notes without `query = query.lower()`
search_notes_CaseSensitive(S, query) ==
  Collect(S, {i \in Readable(S) :
                \/ Contains(Lower(S.index[i].title), query)
                \/ Contains(Lower(ReadFile(S.files, S.index[i].id)), query)})

\* search_notes
search_notes(S, query) ==
  LET q == Lower(query) IN
  Collect(S, {i \in Readable(S) :
                \/ Contains(Lower(S.index[i].title), q)
                \/ Contains(Lower(ReadFile(S.files, S.index[i].id)), q)})

\* get_context_notes that tests only the presence of the key
get_context_notes_KeyOnly(S, context_key, context_value) ==
  Collect(S, {i \in 1..Len(S.index) :
                context_key \in DOMAIN S.index[i].context})

\* get_context_notes
get_context_notes(S, context_key, context_value) ==
  Collect(S, {i \in 1..Len(S.index) :
                /\ context_key \in DOMAIN S.index[i].context
                /\ S.index[i].context[context_key] = context_value})

\* export_notes without the `if not note_file.exists(): continue` test: an
\* entry whose file is missing is written with empty content
export_notes_NoSkip(S) ==
  [readable |-> TRUE,
   data |-> [notes |->
     [i \in 1..Len(S.index) |->
        WithContent(S.index[i],
                    IF FileExists(S.files, S.index[i].id)
                    THEN ReadFile(S.files, S.index[i].id) ELSE <<>>)]]]

\* export_notes: the document json.dump writes to export_file
export_notes(S) ==
  [readable |-> TRUE, data |-> [notes |-> Collect(S, 1..Len(S.index))]]

\* note.get(key, default) on an imported record
GetOr(note, key, default) == IF key \in DOMAIN note THEN note[key] ELSE default

\* the loop body without the "note already exists" branch: every accepted
\* record is appended
ImportOne_AlwaysCreate(acc, note, t) ==
  IF "id" \notin DOMAIN note \/ "title" \notin DOMAIN note \/ "content" \notin DOMAIN note
  THEN acc
  ELSE
    LET S == acc.store
        note_meta == [id |-> note.id,
                      title |-> note.title,
                      created |-> GetOr(note, "created", t),
                      updated |-> GetOr(note, "updated", t),
                      tags |-> GetOr(note, "tags", <<>>),
                      context |-> GetOr(note, "context", EmptyCtx)]
        S1 == [S EXCEPT !.index = Append(S.index, note_meta)]
        S2 == [S1 EXCEPT !.files = WriteFile(S1.files, note.id, note.content)]
    IN [store |-> S2, count |-> acc.count + 1]

\* the loop body whose "note already exists" branch passes no title to
\* update_note
ImportOne_KeepsTitle(acc, note, t) ==
  IF "id" \notin DOMAIN note \/ "title" \notin DOMAIN note \/ "content" \notin DOMAIN note
  THEN acc
  ELSE
    LET S == acc.store
        note_exists == \E i \in 1..Len(S.index) : S.index[i].id = note.id
    IN IF note_exists
       THEN [store |-> update_note(S, note.id, None, Some(note.content),
                                   Some(GetOr(note, "tags", <<>>)),
                                   Some(GetOr(note, "context", EmptyCtx)), t).store,
             count |-> acc.count + 1]
       ELSE ImportOne_AlwaysCreate(acc, note, t)

\* the loop body whose create branch stamps the time of the import instead
\* of note.get("created", ...) and note.get("updated", ...)
ImportOne_StampsNow(acc, note, t) ==
  IF "id" \notin DOMAIN note \/ "title" \notin DOMAIN note \/ "content" \notin DOMAIN note
  THEN acc
  ELSE
    LET S == acc.store
        note_exists == \E i \in 1..Len(S.index) : S.index[i].id = note.id
    IN IF note_exists
       THEN [store |-> update_note(S, note.id, Some(note.title),
                                   Some(note.content),
                                   Some(GetOr(note, "tags", <<>>)),
                                   Some(GetOr(note, "context", EmptyCtx)), t).store,
             count |-> acc.count + 1]
       ELSE
         LET note_meta == [id |-> note.id,
                           title |-> note.title,
                           created |-> t,
                           updated |-> t,
                           tags |-> GetOr(note, "tags", <<>>),
                           context |-> GetOr(note, "context", EmptyCtx)]
             S1 == [S EXCEPT !.index = Append(S.index, note_meta)]
             S2 == [S1 EXCEPT !.files = WriteFile(S1.files, note.id, note.content)]
         IN [store |-> S2, count |-> acc.count + 1]

\* the body of import_notes' loop for one record; t is the reading of
\* time.time() (the defaults of created/updated, and update_note's own)
ImportOne(acc, note, t) ==
  IF "id" \notin DOMAIN note \/ "title" \notin DOMAIN note \/ "content" \notin DOMAIN note
  THEN acc
  ELSE
    LET S == acc.store
        note_id == note.id
        title == note.title
        content == note.content
        tags == GetOr(note, "tags", <<>>)
        context == GetOr(note, "context", EmptyCtx)
        note_exists == \E i \in 1..Len(S.index) : S.index[i].id = note_id
    IN IF note_exists
       THEN [store |-> update_note(S, note_id, Some(title), Some(content),
                                   Some(tags), Some(context), t).store,
             count |-> acc.count + 1]
       ELSE
         LET note_meta == [id |-> note_id,
                           title |-> title,
                           created |-> GetOr(note, "created", t),
                           updated |-> GetOr(note, "updated", t),
                           tags |-> tags,
                           context |-> context]
             S1 == [S EXCEPT !.index = Append(S.index, note_meta)]
             S2 == [S1 EXCEPT !.files = WriteFile(S1.files, note_id, content)]
         IN [store |-> S2, count |-> acc.count + 1]

\* for note in imported_data["notes"]: ...
RECURSIVE ImportLoop(_, _, _)
ImportLoop(acc, notes, t) ==
  IF notes = <<>> THEN acc
  ELSE ImportLoop(ImportOne(acc, Head(notes), t), Tail(notes), t)

\* import_notes without its final _save_index (line 421)
import_notes_NoSave(S, doc, t) ==
  IF ~doc.readable THEN [store |-> S, ret |-> 0]
  ELSE IF "notes" \notin DOMAIN doc.data THEN [store |-> S, ret |-> 0]
  ELSE
    LET done == ImportLoop([store |-> S, count |-> 0], doc.data.notes, t)
    IN [store |-> done.store, ret |-> done.count]

\* import_notes; doc is what import_file holds
import_notes(S, doc, t) ==
  IF ~doc.readable THEN [store |-> S, ret |-> 0]
  ELSE IF "notes" \notin DOMAIN doc.data THEN [store |-> S, ret |-> 0]
  ELSE
    LET done == ImportLoop([store |-> S, count |-> 0], doc.data.notes, t)
    IN [store |-> SaveIndex(done.store), ret |-> done.count]

\* ------------------------------------------------------------ I/O faults
\* What `with open(note_file, 'w') as f: f.write(content)` leaves when it
\* raises OSError: the directory as it was (open failed), or the file with
\* a proper prefix of content (the write, or the flush at close, failed).
WriteFileFails(files, id, content) ==
  {files} \cup
  {WriteFile(files, id, SubSeq(content, 1, n)) : n \in 0..(Len(content) - 1)}

\* What _save_index leaves when json.dump or open raises: it prints the
\* error and returns.  index.json is as it was (open failed) or truncated
\* (open(..., 'w') emptied it and the dump failed part-way).
SaveIndexFails(S) ==
  { S,
    [S EXCEPT !.disk = [exists |-> TRUE, valid |-> FALSE, catalog |-> FALSE,
                        notes |-> <<>>]] }

\* the results r of a call on store S when every _save_index of the call
\* failed: the catalog and files of r, index.json as a failed save leaves it
Unsaved(S, r) ==
  { [r EXCEPT !.store.disk = T.disk] : T \in SaveIndexFails(S) }

\* add_note when the content write (lines 88-89) raises: the entry is in
\* self.index, _save_index is not reached; the stores it can leave
add_note_WriteFails(S, title, content, tags, context, tId, tCreated, tUpdated) ==
  LET note_id == NoteIdAt(tId)
      note_meta == [id |-> note_id,
                    title |-> title,
                    created |-> tCreated,
                    updated |-> tUpdated,
                    tags |-> IF IsNone(tags) THEN <<>> ELSE Val(tags),
                    context |-> IF IsNone(context) THEN EmptyCtx ELSE Val(context)]
      S1 == [S EXCEPT !.index = Append(S.index, note_meta)]
  IN { [S1 EXCEPT !.files = f] : f \in WriteFileFails(S1.files, note_id, content) }

\* update_note when the content write (lines 143-144) raises: the metadata
\* is changed in self.index, _save_index is not reached; the stores it can
\* leave (none when the id is not found or no content is supplied: then
\* nothing is written)
update_note_WriteFails(S, note_id, title, content, tags, context, t) ==
  LET note_index == FindNote(S.index, note_id) IN
  IF note_index = 0 \/ IsNone(content) THEN {}
  ELSE
    LET old == S.index[note_index]
        note_meta ==
          [id |-> old.id,
           title |-> IF IsNone(title) THEN old.title ELSE Val(title),
           created |-> old.created,
           updated |-> t,
           tags |-> IF IsNone(tags) THEN old.tags ELSE Val(tags),
           context |-> IF IsNone(context) THEN old.context
                       ELSE DictUpdate(old.context, Val(context))]
        S1 == [S EXCEPT !.index[note_index] = note_meta]
    IN { [S1 EXCEPT !.files = f] :
           f \in WriteFileFails(S1.files, note_id, Val(content)) }

\* `"id" not in note or "title" not in note or "content" not in note` is false
IsRecord(note) == {"id", "title", "content"} \subseteq DOMAIN note

\* import_notes when the content write of record k raises (in update_note,
\* or at lines 415-416): the records before k are applied, the exception
\* is caught at line 424, the final _save_index is not reached and 0 is
\* returned.  The results it can have.
import_notes_WriteFails(S, doc, t, k) ==
  LET notes == doc.data.notes
      before == ImportLoop([store |-> S, count |-> 0], SubSeq(notes, 1, k - 1), t)
      B == before.store
      note == notes[k]
      note_exists == \E i \in 1..Len(B.index) : B.index[i].id = note.id
      note_meta == [id |-> note.id,
                    title |-> note.title,
                    created |-> GetOr(note, "created", t),
                    updated |-> GetOr(note, "updated", t),
                    tags |-> GetOr(note, "tags", <<>>),
                    context |-> GetOr(note, "context", EmptyCtx)]
      B1 == [B EXCEPT !.index = Append(B.index, note_meta)]
      left == IF note_exists
              THEN update_note_WriteFails(B, note.id, Some(note.title),
                     Some(note.content), Some(GetOr(note, "tags", <<>>)),
                     Some(GetOr(note, "context", EmptyCtx)), t)
              ELSE { [B1 EXCEPT !.files = f] :
                       f \in WriteFileFails(B1.files, note.id, note.content) }
  IN { [store |-> T, ret |-> 0] : T \in left }

\* _load_index: the list of index.json when it exists and parses, else []
LoadIndex(d) == IF d.exists /\ d.valid THEN d.notes ELSE <<>>

\* what _load_index leaves in self.index has a "notes" list: the fallback
\* {"notes": []} has, a document that parsed is taken as it is
HasNotes(d) == IF d.exists /\ d.valid THEN d.catalog ELSE TRUE

\* ---------------------------------------------------------------- inputs
\* what callers pass to add_note (tags and context are optional)
NoteInputs ==
  { [title |-> <<"A", "b">>, content |-> <<"b", "A">>,
     tags |-> Some(<<"fix">>), context |-> Some([file_path |-> "/a"])],
    [title |-> <<"B">>, content |-> <<"a", "CR">>,
     tags |-> None, context |-> None] }

\* what callers pass to update_note (every field is optional)
UpdateInputs ==
  { [title |-> None, content |-> Some(<<"B", "a">>),
     tags |-> None, context |-> Some([project |-> "p"])],
    [title |-> Some(<<"b">>), content |-> None,
     tags |-> Some(<<"new">>), context |-> None] }

\* an id no add_note ever generates
ForeignId == <<"ext", 0>>

\* the ids callers pass to update_note, delete_note and get_note
Ids == {NoteIdAt(t) : t \in 0..MaxTime} \cup {ForeignId}

\* import files written by hand or by another program
RecFull ==
  [id |-> NoteIdAt(0), title |-> <<"a">>, content |-> <<"A", "b">>,
   tags |-> <<"doc">>, context |-> [project |-> "q"],
   created |-> 1, updated |-> 2]
RecOnlyUpdated ==
  [id |-> ForeignId, title |-> <<"B">>, content |-> <<"b">>, updated |-> 0]
RecNoTitle ==
  [id |-> <<"ext", 1>>, content |-> <<"a">>]
RecBare ==
  [id |-> <<"ext", 2>>, title |-> <<"b">>, content |-> <<"A">>]

Unreadable == [readable |-> FALSE, data |-> [notes |-> <<>>]]

FixedDocs ==
  { [readable |-> TRUE, data |-> [notes |-> <<RecFull>>]],
    [readable |-> TRUE, data |-> [notes |-> <<RecNoTitle, RecOnlyUpdated, RecBare>>]],
    [readable |-> TRUE, data |-> [version |-> 1]],
    Unreadable }

\* search queries
Queries == { <<>>, <<"a">>, <<"A", "B">>, <<"LF">> }

\* the (key, value) pairs callers pass to get_context_notes
ContextLookups == { <<"file_path", "/a">>, <<"project", "p">>, <<"project", "/a">> }

\* the (tag, context_key, context_value) filters callers pass to list_notes;
\* each is optional, and "" is a value a caller can supply
ListFilters ==
  { <<None, None, None>>,
    <<Some("fix"), None, None>>,
    <<Some("fix"), Some("file_path"), Some("/a")>>,
    <<None, Some("project"), Some("p")>>,
    <<None, Some("project"), Some("")>>,
    <<None, None, Some("p")>> }

\* ----------------------------------------------------------------- state
VARIABLES
  index,       \* self.index["notes"]
  files,       \* the content files of the notes directory
  disk,        \* index.json
  up,          \* the process that holds the NotesManager is running
  now,         \* the clock, in ticks
  issued,      \* the ids add_note has returned, in call order
  ops,         \* how many mutating calls were made
  last,        \* the last call that wrote: its name, its arguments, what it
               \* returned, whether an exception left it (for import also:
               \* whether the call before it imported the same file, and
               \* the record at which a write failed, if one did)
  answer,      \* what a reading call has returned and its caller has not
               \* taken yet
  index2,      \* self.index["notes"] of the NotesManager that ChatAssistant
               \* holds on the same directory
  usable,      \* self.index has a "notes" list
  gone         \* the ids of the notes delete_note has removed

vars ==
  <<index, files, disk, up, now, issued, ops, last, answer, index2, usable,
    gone>>

Store == [index |-> index, files |-> files, disk |-> disk]

SetStore(S) ==
  /\ index' = S.index
  /\ files' = S.files
  /\ disk' = S.disk

\* no reading call is waiting for its caller
NoAnswer == [op |-> "none", arg |-> <<>>, ret |-> <<>>]

\* The store is synchronous: a caller makes its next call once it has the
\* result of the one before, and only a running process makes calls.  The
\* calls on a self.index without "notes" are actions of their own.
Idle == up /\ usable /\ answer = NoAnswer

\* NotesManager(notes_dir) on a fresh directory: mkdir, then _load_index
\* finds no index.json
Init ==
  /\ index = <<>>
  /\ files = NoFiles
  /\ disk = [exists |-> FALSE, valid |-> TRUE, catalog |-> TRUE, notes |-> <<>>]
  /\ up = TRUE
  /\ now = 0
  /\ issued = <<>>
  /\ ops = 0
  /\ last = [op |-> "init", arg |-> <<>>, ret |-> <<>>, raised |-> FALSE]
  /\ answer = NoAnswer
  /\ index2 = <<>>
  /\ usable = TRUE
  /\ gone = {}

\* time passes between calls
Tick ==
  /\ now < MaxTime
  /\ now' = now + 1
  /\ UNCHANGED <<index2, usable, gone, index, files, disk, up, issued, ops, last, answer>>

\* a call of add_note: it reads the clock for the id, then for created, then
\* for updated, and the clock may advance between the readings
AddNote ==
  \E n \in NoteInputs, tCreated \in now..MaxTime, tUpdated \in now..MaxTime :
    /\ Idle /\ ops < MaxOps
    /\ tCreated <= tUpdated /\ tUpdated <= now + 1
    /\ LET r == add_note(Store, n.title, n.content, n.tags, n.context,
                         now, tCreated, tUpdated)
       IN /\ SetStore(r.store)
          /\ issued' = Append(issued, r.ret)
          /\ last' = [op |-> "add", arg |-> n, ret |-> r.ret, raised |-> FALSE]
    /\ now' = tUpdated
    /\ ops' = ops + 1
    /\ UNCHANGED <<index2, usable, gone, up, answer>>

\* a call of update_note
UpdateNote ==
  \E id \in Ids, u \in UpdateInputs :
    /\ Idle /\ ops < MaxOps
    /\ ops' = ops + 1
    /\ LET r == update_note(Store, id, u.title, u.content, u.tags, u.context, now)
       IN /\ SetStore(r.store)
          /\ last' = [op |-> "update", arg |-> <<id, u>>, ret |-> r.ret,
                      raised |-> FALSE]
    /\ UNCHANGED <<index2, usable, gone, up, now, issued, answer>>

\* a call of delete_note
DeleteNote ==
  \E id \in Ids :
    /\ Idle /\ ops < MaxOps
    /\ ops' = ops + 1
    /\ LET r == delete_note(Store, id)
       IN /\ SetStore(r.store)
          /\ last' = [op |-> "delete", arg |-> id, ret |-> r.ret,
                      raised |-> FALSE]
          /\ gone' = IF r.ret THEN gone \cup {id} ELSE gone
    /\ UNCHANGED <<index2, usable, up, now, issued, answer>>

\* a call of get_note
GetNote ==
  \E id \in Ids :
    /\ Idle
    /\ answer' = [op |-> "get", arg |-> id, ret |-> get_note(Store, id)]
    /\ UNCHANGED <<index2, usable, gone, index, files, disk, up, now, issued, ops, last>>

\* a call of search_notes
SearchNotes ==
  \E q \in Queries :
    /\ Idle
    /\ answer' = [op |-> "search", arg |-> q, ret |-> search_notes(Store, q)]
    /\ UNCHANGED <<index2, usable, gone, index, files, disk, up, now, issued, ops, last>>

\* a call of get_context_notes
GetContextNotes ==
  \E kv \in ContextLookups :
    /\ Idle
    /\ answer' = [op |-> "context", arg |-> kv,
                  ret |-> get_context_notes(Store, kv[1], kv[2])]
    /\ UNCHANGED <<index2, usable, gone, index, files, disk, up, now, issued, ops, last>>

\* a call of list_notes
ListNotes ==
  \E f \in ListFilters :
    /\ Idle
    /\ answer' = [op |-> "list", arg |-> f,
                  ret |-> list_notes(Store, f[1], f[2], f[3])]
    /\ UNCHANGED <<index2, usable, gone, index, files, disk, up, now, issued, ops, last>>

\* a call of export_notes; arg is the document it wrote to export_file
ExportNotes ==
  /\ Idle
  /\ last' = [op |-> "export", arg |-> export_notes(Store), ret |-> TRUE,
              raised |-> FALSE]
  /\ UNCHANGED <<index2, usable, gone, index, files, disk, up, now, issued, ops, answer>>

\* the caller of a reading call takes what it returned
TakeAnswer ==
  /\ answer # NoAnswer
  /\ answer' = NoAnswer
  /\ UNCHANGED <<index2, usable, gone, index, files, disk, up, now, issued, ops, last>>

\* the files import_notes may be given: a hand-written one, or the file the
\* call before it exported or imported
ImportFiles ==
  FixedDocs \cup (IF last.op \in {"export", "import"} THEN {last.arg} ELSE {})

\* a call of import_notes
ImportNotes ==
  \E doc \in ImportFiles :
    /\ Idle /\ ops < MaxOps
    /\ ops' = ops + 1
    /\ LET r == import_notes(Store, doc, now)
       IN /\ SetStore(r.store)
          /\ last' = [op |-> "import", arg |-> doc, ret |-> r.ret,
                      raised |-> FALSE,
                      again |-> (last.op = "import" /\ last.arg = doc)]
    /\ UNCHANGED <<index2, usable, gone, up, now, issued, answer>>

\* ------------------------------------------- failing and interrupted calls
\* a call of add_note whose content write raises: the exception leaves
\* add_note, which has no handler
AddNoteWriteFails ==
  /\ Idle /\ ops < MaxOps
  /\ \E n \in NoteInputs :
       \E T \in add_note_WriteFails(Store, n.title, n.content, n.tags, n.context,
                                     now, now, now) :
         /\ ops' = ops + 1
         /\ SetStore(T)
         /\ last' = [op |-> "add", arg |-> n, ret |-> None, raised |-> TRUE]
         /\ UNCHANGED <<index2, usable, gone, up, now, issued, answer>>

\* a call of update_note whose content write raises: the exception leaves
\* update_note, which has no handler
UpdateNoteWriteFails ==
  /\ Idle /\ ops < MaxOps
  /\ \E id \in Ids, u \in UpdateInputs :
       \E T \in update_note_WriteFails(Store, id, u.title, u.content, u.tags,
                                        u.context, now) :
         /\ ops' = ops + 1
         /\ SetStore(T)
         /\ last' = [op |-> "update", arg |-> <<id, u>>, ret |-> None,
                     raised |-> TRUE]
         /\ UNCHANGED <<index2, usable, gone, up, now, issued, answer>>

\* the files with a "notes" list that an interrupted import_notes may be
\* reading: those of ImportFiles, and a hand-written one with two records
NotesFiles ==
  {d \in ImportFiles : d.readable /\ "notes" \in DOMAIN d.data}
    \cup {[readable |-> TRUE, data |-> [notes |-> <<RecFull, RecOnlyUpdated>>]]}

\* a call of import_notes in which the content write of one record raises
ImportNotesWriteFails ==
  /\ Idle /\ ops < MaxOps
  /\ \E doc \in NotesFiles :
       \E k \in {k \in 1..Len(doc.data.notes) : IsRecord(doc.data.notes[k])} :
         \E r \in import_notes_WriteFails(Store, doc, now, k) :
           /\ ops' = ops + 1
           /\ SetStore(r.store)
           /\ last' = [op |-> "import", arg |-> doc, ret |-> r.ret,
                       raised |-> FALSE, again |-> FALSE, failedAt |-> k]
           /\ UNCHANGED <<index2, usable, gone, up, now, issued, answer>>

\* a call of add_note whose _save_index fails
AddNoteSaveFails ==
  /\ Idle /\ ops < MaxOps
  /\ \E n \in NoteInputs :
       \E r \in Unsaved(Store, add_note(Store, n.title, n.content, n.tags,
                                         n.context, now, now, now)) :
         /\ ops' = ops + 1
         /\ SetStore(r.store)
         /\ issued' = Append(issued, r.ret)
         /\ last' = [op |-> "add", arg |-> n, ret |-> r.ret, raised |-> FALSE]
         /\ UNCHANGED <<index2, usable, gone, up, now, answer>>

\* a call of update_note, on an id it finds, whose _save_index fails
UpdateNoteSaveFails ==
  /\ Idle /\ ops < MaxOps
  /\ \E id \in Ids, u \in UpdateInputs :
       \E r \in Unsaved(Store, update_note(Store, id, u.title, u.content, u.tags,
                                            u.context, now)) :
         /\ r.ret = TRUE
         /\ ops' = ops + 1
         /\ SetStore(r.store)
         /\ last' = [op |-> "update", arg |-> <<id, u>>, ret |-> r.ret,
                     raised |-> FALSE]
         /\ UNCHANGED <<index2, usable, gone, up, now, issued, answer>>

\* a call of delete_note, on an id it finds, whose _save_index fails
DeleteNoteSaveFails ==
  /\ Idle /\ ops < MaxOps
  /\ \E id \in Ids :
       \E r \in Unsaved(Store, delete_note(Store, id)) :
         /\ r.ret = TRUE
         /\ ops' = ops + 1
         /\ SetStore(r.store)
         /\ last' = [op |-> "delete", arg |-> id, ret |-> r.ret, raised |-> FALSE]
         /\ gone' = gone \cup {id}
         /\ UNCHANGED <<index2, usable, up, now, issued, answer>>

\* a call of import_notes, on a file that has "notes", in which every
\* _save_index fails
ImportNotesSaveFails ==
  /\ Idle /\ ops < MaxOps
  /\ \E doc \in ImportFiles :
       \E r \in Unsaved(Store, import_notes(Store, doc, now)) :
         /\ doc.readable /\ "notes" \in DOMAIN doc.data
         /\ ops' = ops + 1
         /\ SetStore(r.store)
         /\ last' = [op |-> "import", arg |-> doc, ret |-> r.ret,
                     raised |-> FALSE, again |-> FALSE]
         /\ UNCHANGED <<index2, usable, gone, up, now, issued, answer>>

\* what the death of the process leaves: the files and index.json as given,
\* nothing in memory
Crashed(fs, d) ==
  /\ ops' = ops + 1
  /\ up' = FALSE
  /\ index' = <<>>
  /\ files' = fs
  /\ disk' = d
  /\ last' = [op |-> "crash", arg |-> <<>>, ret |-> None, raised |-> FALSE]
  /\ UNCHANGED <<index2, usable, gone, now, issued, answer>>

\* the process dies in add_note between the content write (line 89) and
\* _save_index (line 92)
CrashInAddNote ==
  \E n \in NoteInputs :
    /\ Idle /\ ops < MaxOps
    /\ Crashed(WriteFile(files, NoteIdAt(now), n.content), disk)

\* the process dies in update_note between the content write (line 144)
\* and _save_index (line 147)
CrashInUpdateNote ==
  \E id \in Ids, u \in UpdateInputs :
    /\ Idle /\ ops < MaxOps
    /\ FindNote(index, id) # 0 /\ ~IsNone(u.content)
    /\ Crashed(WriteFile(files, id, Val(u.content)), disk)

\* the process dies in delete_note between unlink (line 178) and
\* _save_index (line 181)
CrashInDeleteNote ==
  \E id \in Ids :
    /\ Idle /\ ops < MaxOps
    /\ FindNote(index, id) # 0 /\ FileExists(files, id)
    /\ Crashed(Unlink(files, id), disk)

\* the process dies in import_notes after the loop has handled k records
\* and before the next storage step
CrashInImportNotes ==
  \E doc \in NotesFiles :
    /\ Idle /\ ops < MaxOps
    /\ \E k \in 1..Len(doc.data.notes) :
         LET done == ImportLoop([store |-> Store, count |-> 0],
                                SubSeq(doc.data.notes, 1, k), now)
         IN /\ done.count >= 1
            /\ Crashed(done.store.files, done.store.disk)

\* the program is started again: NotesManager() loads index.json
Restart ==
  /\ ~up
  /\ up' = TRUE
  /\ index' = LoadIndex(disk)
  /\ usable' = HasNotes(disk)
  /\ last' = [op |-> "restart", arg |-> <<>>, ret |-> None, raised |-> FALSE]
  /\ UNCHANGED <<index2, gone, files, disk, now, issued, ops, answer>>

Next ==
  \/ Tick
  \/ AddNote
  \/ UpdateNote
  \/ DeleteNote
  \/ GetNote
  \/ SearchNotes
  \/ GetContextNotes
  \/ ListNotes
  \/ ExportNotes
  \/ ImportNotes
  \/ TakeAnswer

Spec == Init /\ [][Next]_vars

\* the store on a file system whose writes can fail and in a process that
\* can die: the calls that change the store, with their failing and
\* interrupted runs
NextFaulty ==
  \/ Tick
  \/ AddNote
  \/ UpdateNote
  \/ DeleteNote
  \/ ImportNotes
  \/ AddNoteWriteFails
  \/ UpdateNoteWriteFails
  \/ ImportNotesWriteFails
  \/ AddNoteSaveFails
  \/ UpdateNoteSaveFails
  \/ DeleteNoteSaveFails
  \/ ImportNotesSaveFails
  \/ CrashInAddNote
  \/ CrashInUpdateNote
  \/ CrashInDeleteNote
  \/ CrashInImportNotes
  \/ Restart

FaultySpec == Init /\ [][NextFaulty]_vars

\* ------------------------------------------------------- two instances
\* TerminalUI builds a ChatAssistant, which makes a NotesManager of its
\* own, and then its own NotesManager: two instances on the default
\* directory, each with the catalog it loaded.  The store the second one
\* works on:
Store2 == [index |-> index2, files |-> files, disk |-> disk]

\* a call of add_note on ChatAssistant's instance (the only call through
\* which it changes the store)
AddNote2 ==
  \E n \in NoteInputs, tCreated \in now..MaxTime, tUpdated \in now..MaxTime :
    /\ Idle /\ ops < MaxOps
    /\ tCreated <= tUpdated /\ tUpdated <= now + 1
    /\ LET r == add_note(Store2, n.title, n.content, n.tags, n.context,
                         now, tCreated, tUpdated)
       IN /\ index2' = r.store.index
          /\ files' = r.store.files
          /\ disk' = r.store.disk
          /\ issued' = Append(issued, r.ret)
          /\ last' = [op |-> "add", arg |-> n, ret |-> r.ret, raised |-> FALSE]
    /\ now' = tUpdated
    /\ ops' = ops + 1
    /\ UNCHANGED <<index, usable, gone, up, answer>>

\* the calls that change the store, made through either instance in the
\* one thread of the terminal UI
NextTwo ==
  \/ Tick
  \/ AddNote
  \/ UpdateNote
  \/ DeleteNote
  \/ ImportNotes
  \/ AddNote2

TwoSpec == Init /\ [][NextTwo]_vars

\* ------------------------------------------ start on an existing directory
\* What NotesManager() can find in its directory when the program starts:
\* no index.json, one that a failed save truncated, one that holds a JSON
\* document without a "notes" list (such as {} or []), or the catalog and
\* content file that an earlier run's add_note left.
StartStores ==
  { EmptyStore,
    [EmptyStore EXCEPT !.disk = [exists |-> TRUE, valid |-> FALSE,
                                 catalog |-> FALSE, notes |-> <<>>]],
    [EmptyStore EXCEPT !.disk = [exists |-> TRUE, valid |-> TRUE,
                                 catalog |-> FALSE, notes |-> <<>>]] }
    \cup
  { [add_note(EmptyStore, n.title, n.content, n.tags, n.context, 0, 0, 0).store
       EXCEPT !.index = <<>>] : n \in NoteInputs }

\* the program is about to start on such a directory
StartInit ==
  /\ \E S \in StartStores : files = S.files /\ disk = S.disk
  /\ index = <<>>
  /\ up = FALSE
  /\ now = 0
  /\ issued = <<>>
  /\ ops = 0
  /\ last = [op |-> "init", arg |-> <<>>, ret |-> <<>>, raised |-> FALSE]
  /\ answer = NoAnswer
  /\ index2 = <<>>
  /\ usable = TRUE
  /\ gone = {}

\* a caller can make a call on an instance whose self.index has no "notes"
NoCatalog == up /\ ~usable /\ answer = NoAnswer

\* add_note on such an instance: self.index["notes"] (line 84) raises
\* KeyError before anything is written
AddNoteNoCatalog ==
  /\ NoCatalog /\ ops < MaxOps
  /\ \E n \in NoteInputs :
       last' = [op |-> "add", arg |-> n, ret |-> None, raised |-> TRUE]
  /\ ops' = ops + 1
  /\ UNCHANGED <<index, files, disk, up, now, issued, answer, index2, usable,
                 gone>>

\* list_notes, search_notes and get_note on such an instance: the loop
\* over self.index["notes"] (lines 235, 264, 198) raises KeyError
ReadNoCatalog ==
  /\ NoCatalog
  /\ \E op \in {"list", "search", "get"} :
       answer' = [op |-> op, arg |-> <<>>, ret |-> None, raised |-> TRUE]
  /\ UNCHANGED <<index, files, disk, up, now, issued, ops, last, index2,
                 usable, gone>>

\* import_notes on such an instance returns 0 for every file: for an
\* unreadable file or one without "notes" as always; at the first accepted
\* record self.index["notes"] (line 391) raises KeyError, which the
\* handler at line 424 catches; with no accepted record _save_index writes
\* the document back as it was loaded
ImportNotesNoCatalog ==
  /\ NoCatalog /\ ops < MaxOps
  /\ \E doc \in FixedDocs :
       last' = [op |-> "import", arg |-> doc, ret |-> 0, raised |-> FALSE,
                again |-> FALSE]
  /\ ops' = ops + 1
  /\ UNCHANGED <<index, files, disk, up, now, issued, answer, index2, usable,
                 gone>>

\* the program starts, and the calls its user then makes
NextStart ==
  \/ Restart
  \/ Tick
  \/ AddNote
  \/ ListNotes
  \/ SearchNotes
  \/ GetNote
  \/ ImportNotes
  \/ TakeAnswer
  \/ AddNoteNoCatalog
  \/ ReadNoCatalog
  \/ ImportNotesNoCatalog

StartSpec == StartInit /\ [][NextStart]_vars

\* ------------------------------------------------------------ properties
\* the content of catalog entry i as the store reads it
ContentOf(i) == ReadFile(files, index[i].id)

HasBlob(i) == FileExists(files, index[i].id)

\* C1: no two entries of the catalog have the same id.
C1_UniqueIds ==
  \A i, j \in 1..Len(index) : i # j => index[i].id # index[j].id

\* C2: any two add calls return different ids, also two calls within the
\* same millisecond.
C2_AddIdsDistinct ==
  \A i, j \in 1..Len(issued) : i # j => issued[i] # issued[j]

\* C3: after every operation each catalog entry has its content blob
\* (a directory holds at most one file per id, so "exactly one" is "one").
C3_EntryHasBlob ==
  \A i \in 1..Len(index) : HasBlob(i)

\* C4: updated >= created for every note of the catalog.
C4_UpdatedAfterCreated ==
  \A i \in 1..Len(index) : index[i].updated >= index[i].created

\* C5: right after add, get of the returned id gives back the title,
\* content, tags and context that were passed to add.
C5_AddGetRoundTrip ==
  last.op = "add" =>
    LET g == get_note(Store, last.ret) IN
    /\ ~IsNone(g)
    /\ Val(g).title = last.arg.title
    /\ Val(g).content = last.arg.content
    /\ ~IsNone(last.arg.tags) => Val(g).tags = Val(last.arg.tags)
    /\ ~IsNone(last.arg.context) => Val(g).context = Val(last.arg.context)

\* C6: after a successful delete(id): get(id) is not-found, list() has no
\* entry with that id, and the content blob of id is gone.
C6_DeleteComplete ==
  (last.op = "delete" /\ last.ret = TRUE) =>
    LET listed == list_notes(Store, None, None, None) IN
    /\ IsNone(get_note(Store, last.arg))
    /\ \A k \in 1..Len(listed) : listed[k].id # last.arg
    /\ ~FileExists(files, last.arg)

\* what a caller can observe of entry i of catalog ix with files fs: its
\* metadata and, when the blob exists, its content
NoteView(ix, fs, i) ==
  [meta |-> ix[i],
   content |-> IF FileExists(fs, ix[i].id) THEN Some(ReadFile(fs, ix[i].id))
               ELSE None]

\* a step that imports the file the call before it imported
ReImportStep == ops' = ops + 1 /\ last'.op = "import" /\ last'.again

\* C7 (as claimed): a second import of the same document changes nothing:
\* the note count and every field of every note, updated included, stay.
C7_ImportIdempotent ==
  [][ReImportStep =>
       /\ Len(index') = Len(index)
       /\ \A i \in 1..Len(index) :
            NoteView(index', files', i) = NoteView(index, files, i)]_vars

\* the catalog positions a re-import of doc writes to: the first entry with
\* the id of each record that has id, title and content
Touched(doc) ==
  IF doc.readable /\ "notes" \in DOMAIN doc.data
  THEN {FindNote(index, doc.data.notes[k].id) :
          k \in {k \in 1..Len(doc.data.notes) :
                   {"id", "title", "content"} \subseteq DOMAIN doc.data.notes[k]}}
  ELSE {}

\* C7 (amended): a second import of the same document keeps the note count
\* and every note's id, title, tags, context, created and content; updated
\* becomes the time of the second import for the notes the document's
\* records are applied to, and stays for the others.
C7_ImportIdempotentButUpdated ==
  [][ReImportStep =>
       /\ Len(index') = Len(index)
       /\ \A i \in 1..Len(index) :
            /\ index'[i].id = index[i].id
            /\ index'[i].title = index[i].title
            /\ index'[i].tags = index[i].tags
            /\ index'[i].context = index[i].context
            /\ index'[i].created = index[i].created
            /\ NoteView(index', files', i).content
                 = NoteView(index, files, i).content
            /\ index'[i].updated =
                 IF i \in Touched(last'.arg) THEN now ELSE index[i].updated]_vars

\* C7 witness: a second import of the same document has applied a record
\* and refreshed the updated value that record carries.
C7_Witness ==
  /\ last.op = "import" /\ last.again /\ last.ret >= 1
  /\ \E i \in 1..Len(index), k \in 1..Len(last.arg.data.notes) :
       LET rec == last.arg.data.notes[k] IN
       /\ "id" \in DOMAIN rec /\ "updated" \in DOMAIN rec
       /\ rec.id = index[i].id
       /\ rec.updated # index[i].updated

\* the notes of a store by id, title, content, tags and context
NoteSet(S) ==
  { [id |-> S.index[i].id, title |-> S.index[i].title,
     tags |-> S.index[i].tags, context |-> S.index[i].context,
     content |-> IF FileExists(S.files, S.index[i].id)
                 THEN Some(ReadFile(S.files, S.index[i].id)) ELSE None]
    : i \in 1..Len(S.index) }

\* C8: importing the export of the store into an empty store gives the
\* same set of notes by id, title, content, tags and context.
C8_ExportImportRoundTrip ==
  NoteSet(import_notes(EmptyStore, export_notes(Store), now).store)
    = NoteSet(Store)

\* entry i of the catalog is among the records a query returned
Returned(i) == \E k \in 1..Len(answer.ret) : MetaOf(answer.ret[k]) = index[i]

\* q, compared case-insensitively, occurs in the text
OccursIn(q, text) == Contains(Lower(text), Lower(q))

C11_ListSorted ==
  answer.op = "list" =>
    \A k \in 1..(Len(answer.ret) - 1) :
      answer.ret[k].updated >= answer.ret[k + 1].updated

\* C11 witness: list() returned two entries of different updated values
\* that the catalog holds in the opposite order.
C11_Witness ==
  /\ answer.op = "list" /\ Len(answer.ret) >= 2
  /\ \E i, j \in 1..Len(index) :
       /\ i < j /\ index[i].updated < index[j].updated
       /\ \E k, l \in 1..Len(answer.ret) :
            k < l /\ answer.ret[k] = index[j] /\ answer.ret[l] = index[i]

\* list() returned catalog entry i
Listed(i) == \E k \in 1..Len(answer.ret) : answer.ret[k] = index[i]

\* C12: list(tag, contextKey, contextValue) returns an entry iff (no tag is
\* given or the tag is among its tags) and (no context filter is given or
\* its context[contextKey] equals contextValue); a supplied "" is a given
\* value, and a contextValue supplied without contextKey is a given filter.
C12_ListExact ==
  answer.op = "list" =>
    LET tag == answer.arg[1]
        key == answer.arg[2]
        value == answer.arg[3]
    IN \A i \in 1..Len(index) :
         Listed(i) <=>
           /\ IsNone(tag) \/ InList(Val(tag), index[i].tags)
           /\ \/ IsNone(key) /\ IsNone(value)
              \/ /\ ~IsNone(key) /\ ~IsNone(value)
                 /\ Val(key) \in DOMAIN index[i].context
                 /\ index[i].context[Val(key)] = Val(value)

\* a step that is a call of update_note which found the id
UpdateStep == ops' = ops + 1 /\ last'.op = "update" /\ last'.ret = TRUE

\* C13: update(id, ...) of an existing note leaves id and created, sets
\* updated to the time of the call, gives every supplied field its new
\* value (the supplied context keys are set), and leaves title, tags,
\* context and content as they were when they are not supplied.
C13_UpdateFrame ==
  [][UpdateStep =>
       LET u == last'.arg[2]
           i == FindNote(index, last'.arg[1])
           old == NoteView(index, files, i)
           new == NoteView(index', files', i)
       IN /\ Len(index') = Len(index)
          /\ new.meta.id = old.meta.id
          /\ new.meta.created = old.meta.created
          /\ new.meta.updated = now
          /\ new.meta.title = IF IsNone(u.title) THEN old.meta.title
                              ELSE Val(u.title)
          /\ new.meta.tags = IF IsNone(u.tags) THEN old.meta.tags
                             ELSE Val(u.tags)
          /\ IF IsNone(u.context) THEN new.meta.context = old.meta.context
             ELSE \A k \in DOMAIN Val(u.context) :
                    /\ k \in DOMAIN new.meta.context
                    /\ new.meta.context[k] = Val(u.context)[k]
          /\ new.content = IF IsNone(u.content) THEN old.content
                           ELSE Some(Newlines(Val(u.content)))]_vars

\* C13 witness: an update that supplied no title and no tags has been
\* applied to a note that has a title and a tag.
C13_Witness ==
  /\ last.op = "update" /\ last.ret = TRUE
  /\ IsNone(last.arg[2].title) /\ IsNone(last.arg[2].tags)
  /\ LET i == FindNote(index, last.arg[1])
     IN index[i].title # <<>> /\ index[i].tags # <<>> /\ index[i].updated = now

\* the positions of the records of doc that import_notes applies: those
\* with id, title and content
Accepted(doc) ==
  IF doc.readable /\ "notes" \in DOMAIN doc.data
  THEN {k \in 1..Len(doc.data.notes) :
          {"id", "title", "content"} \subseteq DOMAIN doc.data.notes[k]}
  ELSE {}

\* the applied records of doc that carry id
RecordsFor(doc, id) == {k \in Accepted(doc) : doc.data.notes[k].id = id}

\* the last of them: the one whose values the note ends with
LastFor(doc, id) ==
  CHOOSE k \in RecordsFor(doc, id) : \A j \in RecordsFor(doc, id) : j <= k

\* the context a record carries ({} when it carries none)
CtxOf(doc, k) == GetOr(doc.data.notes[k], "context", EmptyCtx)

\* the ids of the catalog that records of doc are applied to
ImportedOnto(doc) ==
  {index[i].id : i \in 1..Len(index)} \cap
  {doc.data.notes[k].id : k \in Accepted(doc)}

\* a step that is a call of import_notes
ImportStep == ops' = ops + 1 /\ last'.op = "import" /\ ~last'.raised

\* C14 (as claimed): after import of a record whose id exists, the note's
\* title, tags, context and content are those of the record; no other
\* context key remains.
C14_ImportOverwrites ==
  [][ImportStep =>
       \A id \in ImportedOnto(last'.arg) :
         LET doc == last'.arg
             rec == doc.data.notes[LastFor(doc, id)]
             new == NoteView(index', files', FindNote(index, id))
         IN /\ new.meta.title = rec.title
            /\ new.meta.tags = GetOr(rec, "tags", <<>>)
            /\ new.meta.context = GetOr(rec, "context", EmptyCtx)
            /\ new.content = Some(Newlines(rec.content))]_vars

\* C14 (amended): after import of a record whose id exists, the note's
\* title, tags and content are those of the record, every context key of
\* the record has the record's value, and every context key the note had
\* before is still there.
C14_ImportOverwritesKeepingKeys ==
  [][ImportStep =>
       \A id \in ImportedOnto(last'.arg) :
         LET doc == last'.arg
             rec == doc.data.notes[LastFor(doc, id)]
             i == FindNote(index, id)
             new == NoteView(index', files', i)
         IN /\ new.meta.title = rec.title
            /\ new.meta.tags = GetOr(rec, "tags", <<>>)
            /\ new.content = Some(Newlines(rec.content))
            /\ \A key \in DOMAIN GetOr(rec, "context", EmptyCtx) :
                 /\ key \in DOMAIN new.meta.context
                 /\ new.meta.context[key] = rec.context[key]
            /\ DOMAIN index[i].context \subseteq DOMAIN new.meta.context]_vars

\* record k of the last imported document was applied to existing entry i:
\* the entry's updated is the time of the import and not the record's
AppliedOnto(i, k) ==
  /\ last.op = "import" /\ ~last.raised /\ k \in Accepted(last.arg)
  /\ last.arg.data.notes[k].id = index[i].id
  /\ index[i].updated = now
  /\ "updated" \in DOMAIN last.arg.data.notes[k]
  /\ last.arg.data.notes[k].updated # now

\* C14 witness: an import has been applied to an existing note, which has
\* the record's context key and still has a key the record does not carry.
C14_Witness ==
  \E i \in 1..Len(index) :
    \E k \in (IF last.op = "import" THEN Accepted(last.arg) ELSE {}) :
      /\ AppliedOnto(i, k)
      /\ CtxOf(last.arg, k) # EmptyCtx
      /\ DOMAIN index[i].context \ DOMAIN CtxOf(last.arg, k) # {}

\* C15: import of a record whose id exists replaces title and tags by the
\* record's, replaces the content, sets updated to the time of the import,
\* and merges the record's context into the note's: the keys are the old
\* ones and the record's, a key of the record has the record's value, any
\* other key its old value.
C15_ImportAppliesUpdate ==
  [][ImportStep =>
       \A id \in ImportedOnto(last'.arg) :
         LET doc == last'.arg
             recs == RecordsFor(doc, id)
             rec == doc.data.notes[LastFor(doc, id)]
             i == FindNote(index, id)
             new == NoteView(index', files', i)
             \* the last record for id that carries key
             Latest(key) ==
               CHOOSE k \in recs :
                 /\ key \in DOMAIN CtxOf(doc, k)
                 /\ \A j \in recs : key \in DOMAIN CtxOf(doc, j) => j <= k
         IN /\ new.meta.id = id
            /\ new.meta.created = index[i].created
            /\ new.meta.updated = now
            /\ new.meta.title = rec.title
            /\ new.meta.tags = GetOr(rec, "tags", <<>>)
            /\ new.content = Some(Newlines(rec.content))
            /\ DOMAIN new.meta.context =
                 DOMAIN index[i].context
                   \cup UNION {DOMAIN CtxOf(doc, k) : k \in recs}
            /\ \A key \in DOMAIN new.meta.context :
                 new.meta.context[key] =
                   IF \E k \in recs : key \in DOMAIN CtxOf(doc, k)
                   THEN CtxOf(doc, Latest(key))[key]
                   ELSE index[i].context[key]]_vars

\* C15 witness: an import has been applied to a note that add created (its
\* created is not the record's): it has the record's title and tags.
C15_Witness ==
  \E i \in 1..Len(index) :
    \E k \in (IF last.op = "import" THEN Accepted(last.arg) ELSE {}) :
      /\ AppliedOnto(i, k)
      /\ "created" \in DOMAIN last.arg.data.notes[k]
      /\ "tags" \in DOMAIN last.arg.data.notes[k]
      /\ index[i].created # last.arg.data.notes[k].created
      /\ index[i].title = last.arg.data.notes[k].title
      /\ index[i].tags = last.arg.data.notes[k].tags

\* a step that is a call of update_note or delete_note with an id the
\* catalog does not hold
NotFoundStep ==
  /\ ops' = ops + 1
  /\ last'.op \in {"update", "delete"}
  /\ FindNote(index, IF last'.op = "update" THEN last'.arg[1] ELSE last'.arg) = 0

\* C17: update and delete of an id that is not in the catalog return false,
\* raise nothing, and leave the catalog, the content blobs and the
\* persisted index as they were.
C17_NotFoundNoEffect ==
  [][NotFoundStep =>
       /\ ~last'.raised
       /\ last'.ret = FALSE
       /\ index' = index
       /\ files' = files
       /\ disk' = disk]_vars

\* C17 witness: delete of an unknown id has returned false on a store that
\* holds a note.
C17_Witness ==
  /\ last.op = "delete" /\ last.ret = FALSE
  /\ Len(index) >= 1 /\ disk.exists
  /\ FindNote(index, last.arg) = 0

\* the number of records the last import applied (created or updated): the
\* records with id, title and content, up to the one whose write failed
AppliedCount ==
  Cardinality({k \in Accepted(last.arg) :
                 "failedAt" \in DOMAIN last => k < last.failedAt})

\* C16: the count import returns is the number of records it applied, the
\* records missing id, title or content being skipped, also in a run that
\* fails part-way through the document.
C16_CountIsApplied ==
  last.op = "import" => last.ret = AppliedCount

\* C18: no call of the store is left by an exception; a failure is a
\* returned value.
C18_NoExceptionEscapes ==
  last.op \in {"add", "update", "delete", "import", "export"} => ~last.raised

\* the last call that wrote returned success: an id from add, true from
\* update or delete, a positive count from import
Acknowledged ==
  /\ last.op \in {"add", "update", "delete", "import"}
  /\ ~last.raised
  /\ CASE last.op = "add" -> TRUE
       [] last.op = "import" -> last.ret > 0
       [] OTHER -> last.ret = TRUE

\* C19: when add, update, delete or import has returned success, index.json
\* holds the catalog that is in memory, also when writing it failed.
C19_AcknowledgedIsPersisted ==
  (up /\ Acknowledged) =>
    disk.exists /\ disk.valid /\ disk.notes = index

\* C20: after the process died between two storage steps of a mutating
\* call, index.json lists no entry whose content blob is missing.
C20_CrashLeavesNoDanglingEntry ==
  ~up =>
    \A i \in 1..Len(LoadIndex(disk)) :
      FileExists(files, LoadIndex(disk)[i].id)

\* the catalog positions of the entries with this id
EntriesOf(id) == {i \in 1..Len(index) : index[i].id = id}

\* C23: get(id) returns the metadata of the entry with that id together
\* with the content read from its blob when both the entry and the blob
\* exist, and not-found when the entry or the blob is missing.
C23_GetIffEntryAndBlob ==
  answer.op = "get" =>
    IF EntriesOf(answer.arg) # {} /\ FileExists(files, answer.arg)
    THEN \E i \in EntriesOf(answer.arg) :
           answer.ret = Some(WithContent(index[i], ReadFile(files, answer.arg)))
    ELSE answer.ret = None

\* C23 witness: get answered not-found for an id whose entry is in the
\* catalog while its blob is gone.
C23_Witness ==
  /\ answer.op = "get"
  /\ EntriesOf(answer.arg) # {}
  /\ ~FileExists(files, answer.arg)
  /\ answer.ret = None

\* a step that is a call of export_notes: the only steps that end with an
\* export as the last call and change neither the clock, nor the pending
\* answer, nor the number of mutating calls
ExportStep ==
  last'.op = "export" /\ now' = now /\ answer' = answer /\ ops' = ops

\* C24: export writes exactly the entries whose blob exists, each with its
\* metadata and the content read from its blob, in catalog order, and
\* leaves the catalog, the persisted index and every blob as they were.
C24_ExportExact ==
  [][ExportStep =>
       LET doc == last'.arg.data.notes
           full == {i \in 1..Len(index) : HasBlob(i)}
       IN /\ last'.arg.readable
          /\ Len(doc) = Cardinality(full)
          /\ \A i \in 1..Len(index) :
               HasBlob(i) <=> \E k \in 1..Len(doc) : MetaOf(doc[k]) = index[i]
          /\ \A k \in 1..Len(doc) :
               \E i \in full : doc[k] = WithContent(index[i], ContentOf(i))
          /\ \A k, l \in 1..Len(doc) :
               k < l => \E i, j \in full :
                          /\ i < j
                          /\ doc[k] = WithContent(index[i], ContentOf(i))
                          /\ doc[l] = WithContent(index[j], ContentOf(j))
          /\ index' = index /\ files' = files /\ disk' = disk]_vars

\* C24 witness: an export has left out an entry whose blob is missing.
C24_Witness ==
  /\ last.op = "export"
  /\ \E i \in 1..Len(index) : ~HasBlob(i)
  /\ Len(last.arg.data.notes) < Len(index)

\* the accepted records of doc that create a note: their id is not in the
\* catalog and no other accepted record of doc carries it
Creating(doc) ==
  {k \in Accepted(doc) :
     /\ \A i \in 1..Len(index) : index[i].id # doc.data.notes[k].id
     /\ RecordsFor(doc, doc.data.notes[k].id) = {k}}

\* C25: import of a record whose id is new creates one entry whose created
\* and updated are the record's values where the record has them and the
\* time of the import where it has not (so both are the time of the import
\* when it has neither), and writes the record's content to the blob.
C25_ImportCreates ==
  [][ImportStep =>
       \A k \in Creating(last'.arg) :
         LET rec == last'.arg.data.notes[k] IN
         /\ Cardinality({i \in 1..Len(index') : index'[i].id = rec.id}) = 1
         /\ \A i \in 1..Len(index') :
              index'[i].id = rec.id =>
                /\ index'[i].created =
                     (IF "created" \in DOMAIN rec THEN rec.created ELSE now)
                /\ index'[i].updated =
                     (IF "updated" \in DOMAIN rec THEN rec.updated ELSE now)
         /\ FileExists(files', rec.id)
         /\ files'[rec.id] = rec.content]_vars

\* C25 witness: an import has created a note from a record without
\* timestamps at a time other than 0, next to one created from a record
\* with its own updated.
C25_Witness ==
  /\ last.op = "import" /\ ~last.raised /\ now > 0
  /\ \E i, j \in 1..Len(index) :
       /\ index[i].id = RecBare.id
       /\ index[i].created = now /\ index[i].updated = now
       /\ index[j].id = RecOnlyUpdated.id
       /\ index[j].updated = RecOnlyUpdated.updated

\* a step that is a call of add_note or update_note whose content write
\* raised
WriteFailedStep ==
  ops' = ops + 1 /\ last'.op \in {"add", "update"} /\ last'.raised

\* C27: an add or update whose content write fails leaves the in-memory
\* catalog, the persisted index and every blob as they were before the call.
C27_FailedWriteNoEffect ==
  [][WriteFailedStep => index' = index /\ disk' = disk /\ files' = files]_vars

\* a step that is a call of import_notes that returned 0
ImportZeroStep ==
  ops' = ops + 1 /\ last'.op = "import" /\ ~last'.raised /\ last'.ret = 0

\* C28: an import that returns 0 leaves the in-memory catalog, the catalog
\* that the persisted index holds and every blob as they were before the
\* call.
C28_ImportZeroNoEffect ==
  [][ImportZeroStep =>
       /\ index' = index
       /\ LoadIndex(disk') = LoadIndex(disk)
       /\ files' = files]_vars

\* the store of a NotesManager constructed now on the same directory: its
\* catalog is what _load_index reads from index.json, the files are shared
Reopened == [index |-> LoadIndex(disk), files |-> files, disk |-> disk]

\* C29: after any sequence of successful add, update, delete and import
\* calls, a new instance on the same directory answers list, get and search
\* as the instance that made the calls.  (Where the new instance loads the
\* very catalog that is in memory the answers are those of one and the
\* same store; they are compared where it loads another.)
C29_ReopenedAnswersSame ==
  (up /\ Reopened # Store) =>
    /\ \A f \in ListFilters :
         list_notes(Reopened, f[1], f[2], f[3]) = list_notes(Store, f[1], f[2], f[3])
    /\ \A id \in Ids \cup {RecBare.id} :
         get_note(Reopened, id) = get_note(Store, id)
    /\ \A q \in Queries :
         search_notes(Reopened, q) = search_notes(Store, q)

\* C29 witness: after an import that applied records as the last of
\* MaxOps successful calls, a new instance lists two or more notes and
\* finds one by search.
C29_Witness ==
  /\ up /\ ops = MaxOps
  /\ last.op = "import" /\ ~last.raised /\ last.ret >= 1
  /\ Len(list_notes(Reopened, None, None, None)) >= 2
  /\ \E q \in Queries : search_notes(Reopened, q) # <<>>
  /\ \E id \in Ids : get_note(Reopened, id) # None

\* the notes of a catalog and directory that no entry with one of the ids
\* belongs to, in catalog order, each with its metadata and blob
OtherNotes(ix, fs, ids) ==
  LET positions == [i \in 1..Len(ix) |-> i]
      kept == SelectSeq(positions, LAMBDA i : ix[i].id \notin ids)
  IN [j \in 1..Len(kept) |-> NoteView(ix, fs, kept[j])]

\* the ids a call names: the id passed to update_note or delete_note, the
\* ids of the records import_notes accepted
NamedBy(call) ==
  IF call.op = "update" THEN {call.arg[1]}
  ELSE IF call.op = "delete" THEN {call.arg}
  ELSE IF call.op = "import"
       THEN {call.arg.data.notes[k].id : k \in Accepted(call.arg)}
  ELSE {}

\* a step that is a call of add_note, update_note, delete_note or
\* import_notes
MutatingStep ==
  ops' = ops + 1 /\ last'.op \in {"add", "update", "delete", "import"}

\* C30: a mutating call leaves every other note untouched.  add names the
\* note it creates: every note that was in the catalog keeps its position,
\* metadata and content.  update, delete and import name ids: the notes
\* with other ids keep their metadata, content and relative order.
C30_OthersUntouched ==
  [][MutatingStep =>
       IF last'.op = "add"
       THEN /\ Len(index') = Len(index) + 1
            /\ \A i \in 1..Len(index) :
                 NoteView(index', files', i) = NoteView(index, files, i)
       ELSE OtherNotes(index', files', NamedBy(last'))
              = OtherNotes(index, files, NamedBy(last'))]_vars

\* an entry of the catalog has this id
Active(ix, id) == \E i \in 1..Len(ix) : ix[i].id = id

\* the ids that occur in the model
AllIds == Ids \cup {RecNoTitle.id, RecBare.id}

\* C22: an id becomes active only by add or import and never after it was
\* deleted, and an active id becomes absent only by delete of that id.
C22_IdNeverReused ==
  [][\A id \in AllIds :
       /\ (~Active(index, id) /\ Active(index', id)) =>
            /\ ops' = ops + 1 /\ last'.op \in {"add", "import"}
            /\ id \notin gone
       /\ (Active(index, id) /\ ~Active(index', id)) =>
            /\ ops' = ops + 1 /\ last'.op = "delete" /\ last'.arg = id
       /\ (ops' = ops + 1 /\ last'.op = "add") => last'.ret \notin gone]_vars

\* C26: with two instances on one directory, a note that one instance
\* holds and that is in the persisted index is still in the persisted
\* index after a mutating call through the other instance (other than a
\* delete of its id).
C26_OtherInstanceKeepsNotes ==
  [][(ops' = ops + 1) =>
       LET held == IF index2' # index2 THEN index ELSE index2
       IN \A i \in 1..Len(held) :
            ( /\ InList(held[i], LoadIndex(disk))
              /\ ~(last'.op = "delete" /\ last'.arg = held[i].id) )
            => InList(held[i], LoadIndex(disk'))]_vars

\* an exception left the call
Raised(call) == "raised" \in DOMAIN call /\ call.raised

\* C21: constructing the store on a directory whose index.json is absent
\* or cannot be used as a catalog (truncated, or a document without a
\* "notes" list) yields an empty catalog, and no later add, list, search,
\* get or import raises.
C21_StartsEmptyAndWorks ==
  [][/\ (~up /\ up' /\ ~(disk.exists /\ disk.valid /\ disk.catalog))
          => index' = <<>>
     /\ up' => (~Raised(last') /\ ~Raised(answer'))]_vars

====
